---- MODULE Spec2Model ----
(***************************************************************************)
(* Key registration of vikalp0299/IFT_Project_593: the CreateAccount       *)
(* registration flow of the React client, the browser's encrypted key      *)
(* store (IndexedDB "userKeys"), and the key server (users, PublicKey      *)
(* collection, POST/PUT/DELETE /api/keys/public), the API of the key store  *)
(* (cryptoService) and CryptoUtils.encryptFile.                            *)
(***************************************************************************)
EXTENDS Integers, Sequences, FiniteSets, TLC

\* ---------------------------------------------------------------- bounds
MaxRuns == 2          \* invocations of CreateAccount.handleSubmit
MaxDirect == 1        \* further in-flight POST /api/keys/public requests
MaxKeyRecords == 3    \* PublicKey documents ever created
MaxUsers == 2         \* accounts registered outside the CreateAccount flow
MaxKeyPairs == 3      \* RSA key pairs ever generated
MaxTokens == 2        \* token pairs issued by POST /auth/refresh
MaxRefresh == 2       \* POST /auth/refresh requests in flight
MaxCalls == 3         \* steps of the direct client of the key store
MaxFileLen == 400     \* bytes of a file handed to encryptFile

\* ------------------------------------------------------ program constants
MinPemLen == 400
MaxPemLen == 10000
MinUsernameLen == 3
ExportedPemLen == 450
chunkSize == 190
modulusLength == 2048

Runs == 1..MaxRuns
ReqIds == 1..(MaxRuns + MaxDirect)
DirectIds == (MaxRuns + 1)..(MaxRuns + MaxDirect)
ServerSlot == MaxRuns + 1

NoUser == "none"
NoOrg == "none"
ObjectIds == <<"u1", "u2", "u3", "u4">>

\* ------------------------------------------------------------ input sets
\* username and email typed into the form
Profiles == {<<"alice", "a@x.io">>, <<"bob", "b@x.io">>, <<"al", "c@x.io">>}
FormProfiles == {<<"alice", "a@x.io">>, <<"bob", "b@x.io">>}
Passwords == {"Tr0ub4dor&3"}
FormOrgNames == {"Acme", "ghost"}
ApiOrgNames == {"acme", "Acme", "beta", "ghost"}
ForeignKey == 0
NullKey == -1
KeyTypes == {"RSA-OAEP", "RSA-PSS"}
\* arguments of the direct client of the key store
StoreUserIds == {"u1", "temp_user_id", "temp"}
StoreOrgNames == {"acme", "user_id_acme"}
PrivateKeys == {1, 2}
LoadPasswords == Passwords \cup {"hunter2"}
\* lengths of the files handed to the CryptoUtils instance of the page
PayloadLens == {0, 1, 190, 191, 381}

\* Organization documents present on the server; the schema stores the
\* name lowercased.
Organizations == {"acme", "beta"}

VARIABLES
  users,        \* User collection: set of documents
  publicKeys,   \* PublicKey collection: set of documents
  nextKeyId,    \* next fresh keyId (crypto.randomUUID)
  keyStore,     \* IndexedDB object store "userKeys": set of records, keyPath id
  nextKeyPair,  \* next fresh RSA key pair (crypto.subtle.generateKey)
  run,          \* per invocation of handleSubmit: its locals and position
  postReq,      \* per request slot: POST /api/keys/public in flight
  app,          \* FileEncryptionApp: its CryptoUtils store and position
  clock,        \* Date.now(): advances with every step on a key store
  call,         \* the last call of the key-store API: arguments and result
  enc,          \* CryptoUtils.encryptFile: its loop variables
  tokenBlacklist, \* auth middleware: the Set of revoked tokens
  authReq       \* /auth requests: refreshes in flight, answers sent

vars == <<users, publicKeys, nextKeyId, keyStore, nextKeyPair, run, postReq, app,
          clock, call, enc, tokenBlacklist, authReq>>

\* ------------------------------------------------------------- strings
toLowerCase(s) == IF s = "Acme" THEN "acme" ELSE s

\* A PEM text: which key it encodes, whether both marker lines are present,
\* its length, and whether it carries surrounding whitespace.
Pem(k, m, n, w) == [key |-> k, markers |-> m, len |-> n, ws |-> w]
EmptyPem == Pem(ForeignKey, FALSE, 0, FALSE)

\* String.prototype.trim on a PEM text: strips the surrounding whitespace
\* (one character on each side in the inputs used here).
trim(p) == IF p.ws THEN [p EXCEPT !.ws = FALSE, !.len = p.len - 2] ELSE p

exportPublicKeyAsPem(k) == Pem(k, TRUE, ExportedPemLen, FALSE)

sha256(p) == <<"sha256", p.key, p.markers, p.len, p.ws>>

\* `${userId}_${organizationName}_privateKey`
StoreId(userId, organizationName) ==
  userId \o "_" \o organizationName \o "_privateKey"

\* ------------------------------------------------------------ key server
UserIds == {u.id : u \in users}

\* Organization.findOne({ name }): the schema's lowercase setter is applied
\* to the name in the filter; an organization's _id is written as its
\* stored name.
findOrganizationId(name) ==
  IF toLowerCase(name) \in Organizations THEN toLowerCase(name) ELSE NoOrg

\* POST /auth/register: validation, duplicate check, organization lookup.
\* Only the username length is varied; the other profile fields are valid.
registerFunction(body) ==
  IF Len(body.username) < MinUsernameLen THEN 400
  ELSE IF \E u \in users : \/ u.username = toLowerCase(body.username)
                           \/ u.email = toLowerCase(body.email) THEN 409
  ELSE IF findOrganizationId(body.organizationName) = NoOrg THEN 400
  ELSE 201

NewUser(body) ==
  [id |-> ObjectIds[Cardinality(users) + 1],
   username |-> toLowerCase(body.username),
   email |-> toLowerCase(body.email),
   organization |-> findOrganizationId(body.organizationName),
   organizationName |-> body.organizationName,
   isActive |-> TRUE]

\* authenticateToken: the bearer of a token is a stored, active user.
authenticateToken(requester) ==
  \E u \in users : u.id = requester /\ u.isActive

\* validateKeyUpload asking for no organization name.
validateKeyUpload_PemOnly(publicKeyPem, organizationName) ==
  /\ publicKeyPem.len > 0
  /\ trim(publicKeyPem).markers
  /\ trim(publicKeyPem).len >= MinPemLen
  /\ trim(publicKeyPem).len <= MaxPemLen

\* validateKeyUpload({ publicKeyPem, organizationName })
validateKeyUpload(publicKeyPem, organizationName) ==
  /\ publicKeyPem.len > 0
  /\ trim(publicKeyPem).markers
  /\ trim(publicKeyPem).len >= MinPemLen
  /\ trim(publicKeyPem).len <= MaxPemLen
  /\ organizationName # ""

\* The handler without its existing-key lookup.
UploadCheck_NoExisting(requester, body) ==
  IF ~authenticateToken(requester) THEN 401
  ELSE IF ~validateKeyUpload(body.publicKeyPem, body.organizationName) THEN 400
  ELSE IF findOrganizationId(body.organizationName) = NoOrg THEN 400
  ELSE IF ~\E u \in users : /\ u.id = requester
                            /\ u.organization = findOrganizationId(body.organizationName)
                            /\ u.isActive THEN 403
  ELSE 0

\* The handler with the membership check ahead of the organization lookup.
UploadCheck_MemberFirst(requester, body) ==
  IF ~authenticateToken(requester) THEN 401
  ELSE IF ~validateKeyUpload(body.publicKeyPem, body.organizationName) THEN 400
  ELSE IF ~\E u \in users : /\ u.id = requester
                            /\ u.organization = findOrganizationId(body.organizationName)
                            /\ u.isActive THEN 403
  ELSE IF findOrganizationId(body.organizationName) = NoOrg THEN 400
  ELSE IF \E d \in publicKeys : /\ d.user = requester
                                /\ d.organization = findOrganizationId(body.organizationName)
                                /\ d.isActive THEN 409
  ELSE 0

\* The checks of POST /api/keys/public up to the existing-key lookup: the
\* status of the early return, or 0 when the handler goes on to save.
UploadCheck(requester, body) ==
  IF ~authenticateToken(requester) THEN 401
  ELSE IF ~validateKeyUpload(body.publicKeyPem, body.organizationName) THEN 400
  ELSE IF findOrganizationId(body.organizationName) = NoOrg THEN 400
  ELSE IF ~\E u \in users : /\ u.id = requester
                            /\ u.organization = findOrganizationId(body.organizationName)
                            /\ u.isActive THEN 403
  ELSE IF \E d \in publicKeys : /\ d.user = requester
                                /\ d.organization = findOrganizationId(body.organizationName)
                                /\ d.isActive THEN 409
  ELSE 0

\* The request as the handler holds it after lines 16-84: answered by an
\* early return, or about to build and save the document.
Arrived(requester, org, pem) ==
  LET body == [organizationName |-> org, publicKeyPem |-> pem]
      status == UploadCheck(requester, body)
  IN [pc |-> IF status = 0 THEN "checked" ELSE "done",
      requester |-> requester, organizationName |-> org,
      publicKeyPem |-> pem, status |-> status]

\* new PublicKey({...}) followed by the pre-save hook.
NewPublicKey(requester, body) ==
  [keyId |-> nextKeyId,
   organization |-> findOrganizationId(body.organizationName),
   user |-> requester,
   publicKeyPem |-> trim(body.publicKeyPem),
   keyFingerprint |-> sha256(trim(body.publicKeyPem)),
   keyType |-> "RSA-OAEP",
   isActive |-> TRUE]

\* The collection without its compound (organization, user, isActive) index.
DuplicateKey_NoCompound(others, doc) ==
  \E d \in others :
     \/ d.keyId = doc.keyId
     \/ d.keyFingerprint = doc.keyFingerprint

\* The unique indexes of the PublicKey collection: keyId, keyFingerprint and
\* the compound (organization, user, isActive).
DuplicateKey(others, doc) ==
  \E d \in others :
     \/ d.keyId = doc.keyId
     \/ d.keyFingerprint = doc.keyFingerprint
     \/ (d.organization = doc.organization /\ d.user = doc.user
         /\ d.isActive = doc.isActive)

\* ------------------------------------------------------ tokens and routes
\* jwt.sign: a token names its user; type is 'refresh' for refresh tokens.
\* Tokens signed at different times differ; iat stands for the time.
Token(type, userId, iat) == [type |-> type, userId |-> userId, iat |-> iat]

\* generateTokens(user)
generateTokens(userId, iat) ==
  [accessToken |-> Token("access", userId, iat),
   refreshToken |-> Token("refresh", userId, iat)]

\* blacklistToken(token): tokenBlacklist.add(token)
blacklistToken(blacklist, token) == blacklist \cup {token}

\* isTokenBlacklisted(token)
isTokenBlacklisted(blacklist, token) == token \in blacklist

\* The code authenticateToken answers 401 with, or "OK" when it calls next().
\* verifyToken accepts every token the server signed, of either type.
AuthCode(blacklist, token) ==
  IF isTokenBlacklisted(blacklist, token) THEN "TOKEN_REVOKED"
  ELSE IF ~\E u \in users : u.id = token.userId THEN "USER_NOT_FOUND"
  ELSE IF ~\E u \in users : u.id = token.userId /\ u.isActive THEN "ACCOUNT_DEACTIVATED"
  ELSE "OK"

\* The routes of server.js under /auth in the order they are registered:
\* app.use('/auth', loginRouter) comes before the app.post and app.get lines.
Routes ==
  <<[method |-> "POST", path |-> "/auth/register", handler |-> "registerFunction"],
    [method |-> "POST", path |-> "/auth/login", handler |-> "loginFunction"],
    [method |-> "POST", path |-> "/auth/logout", handler |-> "logoutFunction"],
    [method |-> "POST", path |-> "/auth/refresh", handler |-> "refreshToken"],
    [method |-> "POST", path |-> "/auth/logout", handler |-> "logout"],
    [method |-> "GET", path |-> "/auth/me", handler |-> "getCurrentUser"]>>

\* Express hands a request to the first route that matches it.
Handler(method, path) ==
  LET matching == {i \in 1..Len(Routes) :
                     Routes[i].method = method /\ Routes[i].path = path}
  IN Routes[CHOOSE i \in matching : \A j \in matching : i <= j].handler

\* POST /auth/logout: logoutFunction answers without reading the token; the
\* logout middleware runs behind authenticateToken and revokes req.token.
LogoutAnswer(blacklist, token) ==
  IF Handler("POST", "/auth/logout") = "logoutFunction"
  THEN [blacklist |-> blacklist, status |-> 200, code |-> "OK"]
  ELSE IF AuthCode(blacklist, token) # "OK"
       THEN [blacklist |-> blacklist, status |-> 401,
             code |-> AuthCode(blacklist, token)]
       ELSE [blacklist |-> blacklistToken(blacklist, token), status |-> 200,
             code |-> "OK"]

\* refreshToken up to its await of User.findById: the code of the early 401,
\* or "OK" when the handler goes on.
RefreshCheck(blacklist, token) ==
  IF isTokenBlacklisted(blacklist, token) THEN "REFRESH_TOKEN_REVOKED"
  ELSE IF token.type # "refresh" THEN "INVALID_REFRESH_TOKEN"
  ELSE "OK"

IdleRefresh == [pc |-> "idle", token |-> Token("none", NoUser, 0), status |-> 0]

NoAuthRequests ==
  [refresh |-> [i \in 1..MaxRefresh |-> IdleRefresh],
   iat |-> 1,
   answered |-> {},
   last |-> [op |-> "none", token |-> Token("none", NoUser, 0), status |-> 0,
             code |-> ""]]

\* The tokens clients hold: those of the registration answers and those of
\* the refresh answers.
IssuedTokens ==
  {Token(type, u.id, 0) : type \in {"access", "refresh"}, u \in users}
    \cup {a.tokens.accessToken : a \in authReq.answered}
    \cup {a.tokens.refreshToken : a \in authReq.answered}

AccessTokens == {t \in IssuedTokens : t.type = "access"}

\* ObjectId.toString() and the ObjectId itself, as compared by !==
toString(id) == <<"string", id>>
ObjectId(id) == <<"ObjectId", id>>

\* ------------------------------------------------------ client key store
\* Outcomes of a call: a returned value, or an exception thrown.
Returned(v) == [ok |-> TRUE, value |-> v]
Threw(e) == [ok |-> FALSE, error |-> e]

\* What can go wrong underneath a call: nothing, indexedDB.open fails
\* (initDB rejects), or the request on the object store fires its error event.
Faults == {"none", "open", "request"}
\* updateStoredKeyUserId makes three requests, each of which can fail.
RekeyFaults == {"none", "open", "get", "delete", "put"}

\* window.crypto.getRandomValues(new Uint8Array(len)): a fresh byte array per
\* wrap; n counts the calls made before.
getRandomValues(len, n) == <<len, n % 256>>

\* Array.from(Uint8Array) and new Uint8Array(number[]).
Array_from(bytes) == bytes
Uint8Array(numbers) == [i \in DOMAIN numbers |-> numbers[i] % 256]

\* PBKDF2 (100000 iterations, SHA-256) to an AES-GCM key.
deriveKeyFromPassword(password, salt) == <<"pbkdf2", password, salt>>

\* crypto.subtle.exportKey('pkcs8') and importKey('pkcs8').
exportKey(privateKey) == <<"pkcs8", privateKey>>
importKey(bytes) == bytes[2]

\* crypto.subtle.encrypt / decrypt with AES-GCM: the ciphertext carries an
\* authentication tag; decrypt rejects with OperationError unless the same
\* key and iv are used and the ciphertext is intact.
subtle_encrypt(derivedKey, iv, plaintext) ==
  [key |-> derivedKey, iv |-> iv, plaintext |-> plaintext, intact |-> TRUE]

subtle_decrypt_Unauthenticated(derivedKey, iv, ciphertext) ==
  Returned(ciphertext.plaintext)

subtle_decrypt(derivedKey, iv, ciphertext) ==
  IF ciphertext.intact /\ ciphertext.key = derivedKey /\ ciphertext.iv = iv
  THEN Returned(ciphertext.plaintext)
  ELSE Threw("OperationError")

encryptPrivateKey(k, password, n) ==
  LET salt == getRandomValues(16, n)
      iv == getRandomValues(12, n)
  IN [encrypted |-> subtle_encrypt(deriveKeyFromPassword(password, salt), iv,
                                   exportKey(k)),
      salt |-> salt, iv |-> iv]

\* keyData with the salt written where the iv belongs.
StoredKeyData_IvFromSalt(k, password, organizationName, userId, now) ==
  LET encryptedData == encryptPrivateKey(k, password, now)
  IN [id |-> StoreId(userId, organizationName),
      encrypted |-> encryptedData.encrypted,
      salt |-> Array_from(encryptedData.salt),
      iv |-> Array_from(encryptedData.salt),
      timestamp |-> now,
      organizationName |-> organizationName,
      userId |-> userId]

StoredKeyData(k, password, organizationName, userId, now) ==
  LET encryptedData == encryptPrivateKey(k, password, now)
  IN [id |-> StoreId(userId, organizationName),
      encrypted |-> encryptedData.encrypted,
      salt |-> Array_from(encryptedData.salt),
      iv |-> Array_from(encryptedData.iv),
      timestamp |-> now,
      organizationName |-> organizationName,
      userId |-> userId]

\* IDBObjectStore.put with keyPath id: upsert.
StorePut(store, rec) == {x \in store : x.id # rec.id} \cup {rec}

StoreGet(store, id) == {x \in store : x.id = id}

\* IDBObjectStore.delete.
StoreDelete(store, id) == {x \in store : x.id # id}

\* cryptoService.storeEncryptedPrivateKey: the store afterwards and the
\* outcome.  Every failure is rethrown.
storeEncryptedPrivateKey(store, privateKey, password, organizationName, userId, fault, now) ==
  IF fault = "none"
  THEN [store |-> StorePut(store, StoredKeyData(privateKey, password,
                                                organizationName, userId, now)),
        outcome |-> Returned(TRUE)]
  ELSE [store |-> store, outcome |-> Threw("Failed to store private key")]

\* An IndexedDB transaction whose request fires an unhandled error event is
\* aborted: the writes made in it are rolled back.
transaction_abort_NoRollback(before, working) == working

transaction_abort(before, working) == before

\* cryptoService.updateStoredKeyUserId without the check of tempKeyData.
updateStoredKeyUserId_NoCheck(store, tempUserId, actualUserId, organizationName, fault) ==
  LET oldId == StoreId(tempUserId, organizationName)
      newId == StoreId(actualUserId, organizationName)
      tempKeyData == StoreGet(store, oldId)
      actualKeyData ==
        IF tempKeyData = {}
        THEN [id |-> newId, userId |-> actualUserId]
        ELSE [(CHOOSE x \in tempKeyData : TRUE) EXCEPT
                !.id = newId, !.userId = actualUserId]
  IN IF fault = "none"
     THEN [store |-> StorePut(StoreDelete(store, oldId), actualKeyData),
           outcome |-> Returned(TRUE)]
     ELSE [store |-> store, outcome |-> Returned(FALSE)]

\* cryptoService.updateStoredKeyUserId without the delete of the temp key.
updateStoredKeyUserId_NoDelete(store, tempUserId, actualUserId, organizationName, fault) ==
  LET tempKeyData == StoreGet(store, StoreId(tempUserId, organizationName))
  IN IF fault = "none" /\ tempKeyData # {}
     THEN [store |-> StorePut(store,
                       [(CHOOSE x \in tempKeyData : TRUE) EXCEPT
                          !.id = StoreId(actualUserId, organizationName),
                          !.userId = actualUserId]),
           outcome |-> Returned(TRUE)]
     ELSE [store |-> store, outcome |-> Returned(FALSE)]

\* cryptoService.updateStoredKeyUserId: one readwrite transaction that gets
\* the record of the temporary id, deletes it and puts it under the new id.

updateStoredKeyUserId(store, tempUserId, actualUserId, organizationName, fault) ==
  LET oldId == StoreId(tempUserId, organizationName)
      newId == StoreId(actualUserId, organizationName)
      tempKeyData == StoreGet(store, oldId)
      deleted == StoreDelete(store, oldId)
      actualKeyData == [(CHOOSE x \in tempKeyData : TRUE) EXCEPT
                          !.id = newId, !.userId = actualUserId]
  IN CASE fault = "open" -> [store |-> store, outcome |-> Returned(FALSE)]
       [] fault = "get" ->
            [store |-> transaction_abort(store, store), outcome |-> Returned(FALSE)]
       [] fault \notin {"open", "get"} /\ tempKeyData = {} ->
            [store |-> store, outcome |-> Returned(FALSE)]
       [] fault = "delete" /\ tempKeyData # {} ->
            [store |-> transaction_abort(store, store), outcome |-> Returned(FALSE)]
       [] fault = "put" /\ tempKeyData # {} ->
            [store |-> transaction_abort(store, deleted),
             outcome |-> Returned(FALSE)]
       [] fault = "none" /\ tempKeyData # {} ->
            [store |-> StorePut(deleted, actualKeyData),
             outcome |-> Returned(TRUE)]

\* cryptoService.hasKeysForOrganization.
hasKeysForOrganization(store, userId, organizationName, fault) ==
  IF fault # "none"
  THEN Returned(FALSE)
  ELSE Returned(StoreGet(store, StoreId(userId, organizationName)) # {})

\* cryptoService.getUserKeys: the entries of the returned array, each with
\* the number of times it occurs.
getUserKeys_NoFilter(store, userId, fault) ==
  LET names == {key.organizationName : key \in store}
  IN Returned([o \in names |->
                 Cardinality({key \in store : key.organizationName = o})])

getUserKeys(store, userId, fault) ==
  LET userKeys == {key \in store : key.userId = userId}
      names == IF fault # "none" THEN {}
               ELSE {key.organizationName : key \in userKeys}
  IN Returned([o \in names |->
                 Cardinality({key \in userKeys : key.organizationName = o})])

\* The CryptoKey returned by importKey('pkcs8', ..., false, ['decrypt']).
CryptoKey(material) == [material |-> material, extractable |-> FALSE]
Null == [null |-> TRUE]

\* CryptoUtils.decryptPrivateKey(encryptedData, password).
decryptPrivateKey(encryptedData, password) ==
  LET derivedKey == deriveKeyFromPassword(password, encryptedData.salt)
      decrypted == subtle_decrypt(derivedKey, encryptedData.iv,
                                  encryptedData.encrypted)
  IN IF decrypted.ok
     THEN Returned(CryptoKey(importKey(decrypted.value)))
     ELSE Threw("Private key decryption failed")

\* cryptoService.loadEncryptedPrivateKey: every failure is caught and
\* answered with null.
loadEncryptedPrivateKey(store, password, organizationName, userId, fault) ==
  LET keyData == StoreGet(store, StoreId(userId, organizationName))
      rec == CHOOSE x \in keyData : TRUE
      encryptedData == [encrypted |-> rec.encrypted,
                        salt |-> Uint8Array(rec.salt),
                        iv |-> Uint8Array(rec.iv)]
      derivedKey == deriveKeyFromPassword(password, encryptedData.salt)
      decrypted == subtle_decrypt(derivedKey, encryptedData.iv,
                                  encryptedData.encrypted)
  IN IF fault # "none" \/ keyData = {}
     THEN Returned(Null)
     ELSE IF decrypted.ok
          THEN Returned(CryptoKey(importKey(decrypted.value)))
          ELSE Returned(Null)

\* cryptoService.deletePrivateKey, answering false unless a record was there.
deletePrivateKey_OnlyExisting(store, userId, organizationName, fault) ==
  IF fault # "none" \/ StoreGet(store, StoreId(userId, organizationName)) = {}
  THEN [store |-> store, outcome |-> Returned(FALSE)]
  ELSE [store |-> StoreDelete(store, StoreId(userId, organizationName)),
        outcome |-> Returned(TRUE)]

\* cryptoService.deletePrivateKey.
deletePrivateKey(store, userId, organizationName, fault) ==
  IF fault # "none"
  THEN [store |-> transaction_abort(store, store), outcome |-> Returned(FALSE)]
  ELSE [store |-> StoreDelete(store, StoreId(userId, organizationName)),
        outcome |-> Returned(TRUE)]

\* cryptoService.clearAllUserKeys deleting by organization instead of by
\* the record's id.
clearAllUserKeys_ByOrganization(store, userId, fault) ==
  LET names == {key.organizationName : key \in {x \in store : x.userId = userId}}
  IN IF fault # "none"
     THEN [store |-> store, outcome |-> Returned(FALSE)]
     ELSE [store |-> {x \in store : x.organizationName \notin names},
           outcome |-> Returned(TRUE)]

\* cryptoService.clearAllUserKeys: getAll, then one delete per record whose
\* userId field matches, all in one readwrite transaction.
clearAllUserKeys(store, userId, fault) ==
  LET userKeys == {key \in store : key.userId = userId}
      ids == {key.id : key \in userKeys}
      cleared == {x \in store : x.id \notin ids}
  IN IF fault = "none"
     THEN [store |-> cleared, outcome |-> Returned(TRUE)]
     ELSE [store |-> transaction_abort(store, store),
           outcome |-> Returned(FALSE)]

\* ------------------------------------------------ CryptoUtils.encryptFile
\* crypto.subtle.encrypt with RSA-OAEP/SHA-256: a chunk of at most
\* modulusLength/8 - 2*32 - 2 bytes gives one block of modulusLength/8
\* bytes; a longer chunk is rejected.
rsa_oaep_encrypt(chunkLen) ==
  IF chunkLen <= (modulusLength \div 8) - 66
  THEN Returned(modulusLength \div 8)
  ELSE Threw("OperationError")

\* The for loop of encryptFile: the lengths of the encrypted chunks pushed
\* from offset i on.
RECURSIVE encryptedChunks(_, _)
encryptedChunks(byteLength, i) ==
  IF i < byteLength
  THEN LET end == IF i + chunkSize < byteLength THEN i + chunkSize ELSE byteLength
       IN <<rsa_oaep_encrypt(end - i).value>> \o encryptedChunks(byteLength, i + chunkSize)
  ELSE <<>>

RECURSIVE totalLength(_)
totalLength(chunks) ==
  IF chunks = <<>> THEN 0 ELSE Head(chunks) + totalLength(Tail(chunks))

\* CryptoUtils.encryptFile(file, publicKey): the length of the returned
\* Uint8Array, or the error thrown when no public key is available.
encryptFile(byteLength, keyToUse) ==
  IF ~keyToUse
  THEN Threw("File encryption failed")
  ELSE Returned(totalLength(encryptedChunks(byteLength, 0)))

IdleEnc == [called |-> FALSE, byteLength |-> 0, keyToUse |-> FALSE, outcome |-> Returned(0)]

\* ------------------------------------------------------------ CryptoUtils
\* this.keyPair of a CryptoUtils instance; null before a pair is generated.
KeyPair(k) == [publicKey |-> k, privateKey |-> k]
NullPair == [publicKey |-> NullKey, privateKey |-> NullKey]

\* No call of a CryptoUtils method made yet in this page.
NoUtilsCall ==
  [op |-> "none", password |-> "", tamper |-> "none", outcome |-> Returned(FALSE),
   decrypted |-> 0]

\* new FileEncryptionApp() over the database the browser keeps: a new
\* CryptoUtils instance, no file selected.
NewApp(store) ==
  [pc |-> "idle", keyPair |-> NullPair, importedPublicKey |-> NullKey,
   store |-> store, uploaded |-> FALSE,
   currentFile |-> <<>>, encryptedFile |-> [blocks |-> <<>>, rest |-> 0],
   last |-> NoUtilsCall]

\* CryptoUtils.storeEncryptedPrivateKey: the record is put under the fixed
\* id 'privateKey'.
CryptoUtils_storeEncryptedPrivateKey(store, privateKey, password, fault, now) ==
  LET encryptedData == encryptPrivateKey(privateKey, password, now)
      keyData == [id |-> "privateKey",
                  encrypted |-> encryptedData.encrypted,
                  salt |-> Array_from(encryptedData.salt),
                  iv |-> Array_from(encryptedData.iv),
                  timestamp |-> now]
  IN IF fault = "none"
     THEN [store |-> StorePut(store, keyData), outcome |-> Returned(TRUE)]
     ELSE [store |-> store, outcome |-> Threw("Failed to store private key")]

\* CryptoUtils.loadEncryptedPrivateKey(password): the new this.keyPair and the
\* outcome.  The public key of the pair is re-imported from this.keyPair,
\* which throws a TypeError when this.keyPair is null.
CryptoUtils_loadEncryptedPrivateKey(keyPair, store, password, fault) ==
  LET keyData == StoreGet(store, "privateKey")
      rec == CHOOSE x \in keyData : TRUE
      privateKey == decryptPrivateKey([encrypted |-> rec.encrypted,
                                       salt |-> Uint8Array(rec.salt),
                                       iv |-> Uint8Array(rec.iv)], password)
      loaded == [publicKey |-> keyPair.publicKey,
                 privateKey |-> privateKey.value.material]
  IN IF fault # "none" \/ keyData = {}
     THEN [keyPair |-> keyPair, outcome |-> Threw("Failed to load private key")]
     ELSE IF ~privateKey.ok \/ keyPair = NullPair
          THEN [keyPair |-> keyPair, outcome |-> Threw("Failed to load private key")]
          ELSE [keyPair |-> loaded, outcome |-> Returned(loaded)]

\* A file offered as a public key: the PEM text or the SPKI bytes of a key,
\* or something else.
KeyFile(format, k) == [format |-> format, key |-> k]

\* CryptoUtils.importPublicKeyFromFile: PEM text is stripped and decoded,
\* anything else is handed to importKey('spki') as it is.
CryptoUtils_importPublicKeyFromFile(file) ==
  IF file.format \in {"pem", "spki"}
  THEN Returned(file.key)
  ELSE Threw("Failed to import public key")

\* The bytes of a file of the given length.
Payload(len) == [i \in 1..len |-> i % 256]

\* ArrayBuffer.slice(begin, end), offsets counted from 0.
slice(buffer, begin, end) ==
  SubSeq(buffer, begin + 1, IF end < Len(buffer) THEN end ELSE Len(buffer))

\* crypto.subtle.encrypt / decrypt with RSA-OAEP: a block of modulusLength/8
\* bytes per chunk; decrypt rejects a block made under another key pair, a
\* modified block and data that is not a whole block.
rsa_encrypt(publicKey, chunk) ==
  [key |-> publicKey, plaintext |-> chunk, intact |-> TRUE]

rsa_decrypt(privateKey, block) ==
  IF block.intact /\ block.key = privateKey
  THEN Returned(block.plaintext)
  ELSE Threw("OperationError")

\* The loop of CryptoUtils.encryptFile over the file's bytes, from offset i.
RECURSIVE encryptChunks(_, _, _)
encryptChunks(fileBuffer, keyToUse, i) ==
  IF i < Len(fileBuffer)
  THEN <<rsa_encrypt(keyToUse, slice(fileBuffer, i, i + chunkSize))>>
         \o encryptChunks(fileBuffer, keyToUse, i + chunkSize)
  ELSE <<>>

\* The key CryptoUtils.encryptFile(file, publicKey) encrypts under:
\* publicKey || this.keyPair?.publicKey || this.importedPublicKey.
EncryptionKey(publicKey, keyPair, importedPublicKey) ==
  IF publicKey # NullKey THEN publicKey
  ELSE IF keyPair # NullPair THEN keyPair.publicKey
  ELSE importedPublicKey

\* CryptoUtils.encryptFile: the encrypted blocks, concatenated.  Data is
\* written as its whole blocks and the number of bytes after the last one.
CryptoUtils_encryptFile(fileBuffer, publicKey, keyPair, importedPublicKey) ==
  LET keyToUse == EncryptionKey(publicKey, keyPair, importedPublicKey)
  IN IF keyToUse = NullKey
     THEN Threw("File encryption failed")
     ELSE Returned([blocks |-> encryptChunks(fileBuffer, keyToUse, 0), rest |-> 0])

\* The length in bytes of encrypted data.
ByteLength(data) == Len(data.blocks) * (modulusLength \div 8) + data.rest

\* The loop of CryptoUtils.decryptFile from block i on: the chunks decrypted
\* until the first block that fails, and whether one failed.  The bytes after
\* the last whole block are a chunk of their own, which decrypt rejects.
RECURSIVE decryptChunks(_, _, _)
decryptChunks(encryptedData, keyToUse, i) ==
  IF i > Len(encryptedData.blocks)
  THEN [chunks |-> <<>>, failed |-> encryptedData.rest > 0]
  ELSE LET decrypted == rsa_decrypt(keyToUse, encryptedData.blocks[i])
           later == decryptChunks(encryptedData, keyToUse, i + 1)
       IN IF decrypted.ok
          THEN [chunks |-> <<decrypted.value>> \o later.chunks,
                failed |-> later.failed]
          ELSE [chunks |-> <<>>, failed |-> TRUE]

RECURSIVE concat(_)
concat(chunks) ==
  IF chunks = <<>> THEN <<>> ELSE Head(chunks) \o concat(Tail(chunks))

\* CryptoUtils.decryptFile joining the decrypted chunks from the second on,
\* the first one last.
CryptoUtils_decryptFile_Rotated(encryptedData, privateKey, keyPair) ==
  LET keyToUse == IF privateKey # NullKey THEN privateKey ELSE keyPair.privateKey
      done == decryptChunks(encryptedData, keyToUse, 1)
  IN IF keyToUse = NullKey \/ done.failed
     THEN [outcome |-> Threw("File decryption failed"), decrypted |-> 0]
     ELSE [outcome |-> Returned(IF done.chunks = <<>> THEN <<>>
                                ELSE concat(Tail(done.chunks) \o <<Head(done.chunks)>>)),
           decrypted |-> Len(done.chunks)]

\* CryptoUtils.decryptFile leaving out the blocks that fail to decrypt.
CryptoUtils_decryptFile_SkipFailed(encryptedData, privateKey, keyPair) ==
  LET keyToUse == IF privateKey # NullKey THEN privateKey ELSE keyPair.privateKey
      done == decryptChunks(encryptedData, keyToUse, 1)
  IN [outcome |-> Returned(concat(done.chunks)), decrypted |-> Len(done.chunks)]

\* CryptoUtils.decryptFile(encryptedData, privateKey): the outcome and the
\* number of blocks decrypted on the way.
CryptoUtils_decryptFile(encryptedData, privateKey, keyPair) ==
  LET keyToUse == IF privateKey # NullKey THEN privateKey ELSE keyPair.privateKey
      done == decryptChunks(encryptedData, keyToUse, 1)
  IN IF keyToUse = NullKey
     THEN [outcome |-> Threw("File decryption failed"), decrypted |-> 0]
     ELSE IF done.failed
          THEN [outcome |-> Threw("File decryption failed"),
                decrypted |-> Len(done.chunks)]
          ELSE [outcome |-> Returned(concat(done.chunks)),
                decrypted |-> Len(done.chunks)]

\* ------------------------------------------- direct client of the key store
\* A call as its caller sees it: the method, its arguments, what went wrong
\* underneath, whether the store held a record the call is about (under the
\* composite id of its arguments or, for getUserKeys and clearAllUserKeys,
\* with its userId), the outcome, and whether it repeats the call made
\* before it.
NoCall ==
  [op |-> "none", at |-> 0, userId |-> NoUser, organizationName |-> "",
   arg |-> "", fault |-> "none", found |-> FALSE,
   outcome |-> Returned(FALSE), repeats |-> FALSE]

Called(op, userId, organizationName, arg, fault, outcome) ==
  [op |-> op, at |-> clock + 1, userId |-> userId,
   organizationName |-> organizationName, arg |-> arg, fault |-> fault,
   found |-> IF op \in {"getUserKeys", "clearAllUserKeys"}
             THEN \E x \in keyStore : x.userId = userId
             ELSE StoreGet(keyStore, StoreId(userId, organizationName)) # {},
   outcome |-> outcome,
   repeats |-> /\ call.op = op /\ call.userId = userId
               /\ call.organizationName = organizationName /\ call.arg = arg
               /\ call.fault = "none"]

\* --------------------------------------------------- CreateAccount flow
IdleRun ==
  [pc |-> "Idle", username |-> "", email |-> "", organizationName |-> "",
   password |-> "", keyPair |-> ForeignKey, publicKeyPem |-> EmptyPem,
   data |-> [done |-> FALSE, success |-> FALSE, status |-> 0, userId |-> NoUser],
   keyUploadResult |-> [done |-> FALSE, success |-> FALSE, status |-> 0]]

IdleReq ==
  [pc |-> "idle", requester |-> NoUser, organizationName |-> "",
   publicKeyPem |-> EmptyPem, status |-> 0]

\* authService.register as handleSubmit uses it: the JSON body of the answer
\* of POST /auth/register; status 0 stands for a call that throws.
authService_register(status, newUserId) ==
  [done |-> TRUE, success |-> status = 201, status |-> status,
   userId |-> IF status = 201 THEN newUserId ELSE NoUser]

\* authService.uploadPublicKey as handleSubmit uses it: success is the 201
\* answer of POST /api/keys/public; status 0 stands for a call that throws.
authService_uploadPublicKey(status) ==
  [done |-> TRUE, success |-> status = 201, status |-> status]

\* handleSubmit without the check of data.success.
AfterRegister_NoCheck(data) == "AccountConfirmed"

\* handleSubmit lines 346-348: a failed registration throws.
AfterRegister(data) ==
  IF ~data.success THEN "AccountFailed" ELSE "AccountConfirmed"

\* handleSubmit without the check of keyUploadResult.success.
AfterUpload_NoCheck(result) == "KeyUploaded"

\* handleSubmit lines 358-362: a failed upload throws.
AfterUpload(result) ==
  IF ~result.success THEN "KeyUploadFailed" ELSE "KeyUploaded"

Terminal(pc) ==
  pc \in {"AccountFailed", "KeyUploadFailed", "StorageFailed", "Complete"}

Init ==
  /\ users = {}
  /\ publicKeys = {}
  /\ nextKeyId = 1
  /\ keyStore = {}
  /\ nextKeyPair = 1
  /\ run = [r \in Runs |-> IdleRun]
  /\ postReq = [i \in ReqIds |-> IdleReq]
  /\ app = NewApp({})
  /\ clock = 0
  /\ call = NoCall
  /\ enc = IdleEnc
  /\ tokenBlacklist = {}
  /\ authReq = NoAuthRequests

\* Steps 1-2 of handleSubmit: frontend validation passed, key pair generated
\* and the public key exported; nothing is stored.  The submit button is
\* disabled while a submission is in progress, so the runs of the form
\* follow one another.
RunGenerate(r) ==
  /\ run[r].pc = "Idle"
  /\ \A q \in Runs : q < r => Terminal(run[q].pc)
  /\ \E pf \in FormProfiles, org \in FormOrgNames, pw \in Passwords :
       run' = [run EXCEPT ![r] =
                 [@ EXCEPT !.pc = "Exported", !.username = pf[1], !.email = pf[2],
                           !.organizationName = org, !.password = pw,
                           !.keyPair = nextKeyPair,
                           !.publicKeyPem = exportPublicKeyAsPem(nextKeyPair)]]
  /\ nextKeyPair' = nextKeyPair + 1
  /\ UNCHANGED <<users, publicKeys, nextKeyId, keyStore, postReq, app, clock, call, enc, tokenBlacklist, authReq>>

\* authService.register: the request either does not reach the server (the
\* call throws) or registerFunction answers it.
RunRegister(r) ==
  /\ run[r].pc = "Exported"
  /\ \E reached \in BOOLEAN :
       LET body == [username |-> run[r].username, email |-> run[r].email,
                    organizationName |-> run[r].organizationName]
           status == IF reached THEN registerFunction(body) ELSE 0
           data == authService_register(status, NewUser(body).id)
       IN /\ users' = IF status = 201 THEN users \cup {NewUser(body)} ELSE users
          /\ run' = [run EXCEPT ![r] =
                       [@ EXCEPT !.data = data, !.pc = AfterRegister(data)]]
  /\ UNCHANGED <<publicKeys, nextKeyId, keyStore, nextKeyPair, postReq, app, clock, call, enc, tokenBlacklist, authReq>>

InFlight == {j \in ReqIds : postReq[j].pc = "checked"}

\* authService.uploadPublicKey(publicKeyPem, organizationName): the POST is
\* sent with the token of the account just registered and the handler runs
\* its checks (lines 16-84), or the call throws before reaching the server.
RunUploadSend(r) ==
  /\ run[r].pc = "AccountConfirmed"
  /\ \E reached \in BOOLEAN :
       IF reached
       THEN /\ nextKeyId + Cardinality(InFlight) <= MaxKeyRecords
            /\ postReq' = [postReq EXCEPT ![r] =
                 Arrived(run[r].data.userId, run[r].organizationName,
                         run[r].publicKeyPem)]
            /\ run' = [run EXCEPT ![r] = [@ EXCEPT !.pc = "Uploading"]]
       ELSE LET result == authService_uploadPublicKey(0)
            IN /\ run' = [run EXCEPT ![r] =
                    [@ EXCEPT !.keyUploadResult = result,
                              !.pc = AfterUpload(result)]]
               /\ UNCHANGED postReq
  /\ UNCHANGED <<users, publicKeys, nextKeyId, keyStore, nextKeyPair, app, clock, call, enc, tokenBlacklist, authReq>>

\* The answer to the upload arrives (or is lost on the way back).
RunUploadResult(r) ==
  /\ run[r].pc = "Uploading"
  /\ postReq[r].pc = "done"
  /\ \E delivered \in BOOLEAN :
       LET result == authService_uploadPublicKey(
                       IF delivered THEN postReq[r].status ELSE 0)
       IN run' = [run EXCEPT ![r] =
                    [@ EXCEPT !.keyUploadResult = result,
                              !.pc = AfterUpload(result)]]
  /\ postReq' = [postReq EXCEPT ![r] = IdleReq]
  /\ UNCHANGED <<users, publicKeys, nextKeyId, keyStore, nextKeyPair, app, clock, call, enc, tokenBlacklist, authReq>>

\* Step 4 of handleSubmit: cryptoService.storeEncryptedPrivateKey, which
\* puts the record or throws (database cannot be opened, put fails).
RunStore(r) ==
  /\ run[r].pc = "KeyUploaded"
  /\ \E fault \in Faults :
       LET stored == storeEncryptedPrivateKey(keyStore, run[r].keyPair,
                       run[r].password, run[r].organizationName,
                       run[r].data.userId, fault, clock)
       IN /\ keyStore' = stored.store
          /\ run' = [run EXCEPT ![r] =
                       [@ EXCEPT !.pc = IF stored.outcome.ok
                                        THEN "Complete" ELSE "StorageFailed"]]
  /\ clock' = clock + 1
  /\ UNCHANGED <<users, publicKeys, nextKeyId, nextKeyPair, postReq, app, call, enc, tokenBlacklist, authReq>>

\* cryptoService.generateKeysForRegistration(password, organizationName) with
\* the default tempUserId: generates, exports and stores under the
\* placeholder id; the public key PEM is returned to the caller.
generateKeysForRegistration(password, organizationName) ==
  /\ nextKeyPair <= MaxKeyPairs
  /\ \E fault \in Faults :
       keyStore' = storeEncryptedPrivateKey(keyStore, nextKeyPair, password,
                     organizationName, "temp_user_id", fault, clock).store
  /\ nextKeyPair' = nextKeyPair + 1
  /\ clock' = clock + 1
  /\ UNCHANGED <<users, publicKeys, nextKeyId, run, postReq, app, call, enc, tokenBlacklist, authReq>>

\* FileEncryptionApp.generateKeys, lines 126-139: CryptoUtils generates the
\* pair and stores the wrapped private key under the id 'privateKey'; a
\* failure of the store ends the handler in its catch block.
AppGenerateKeys(password) ==
  /\ app.pc \in {"idle", "done"}
  /\ nextKeyPair <= MaxKeyPairs
  /\ \E fault \in Faults :
       LET stored == CryptoUtils_storeEncryptedPrivateKey(app.store, nextKeyPair,
                                                          password, fault, clock)
       IN app' = [app EXCEPT !.pc = IF stored.outcome.ok THEN "stored" ELSE "done",
                             !.keyPair = KeyPair(nextKeyPair),
                             !.store = stored.store,
                             !.uploaded = FALSE,
                             !.last = NoUtilsCall]
  /\ nextKeyPair' = nextKeyPair + 1
  /\ clock' = clock + 1
  /\ UNCHANGED <<users, publicKeys, nextKeyId, keyStore, run, postReq, call, enc, tokenBlacklist, authReq>>

\* FileEncryptionApp.generateKeys, lines 141-154: the public key is exported
\* and POSTed; the promise resolves or rejects later.
AppUploadSettled ==
  /\ app.pc = "stored"
  /\ \E ok \in BOOLEAN : app' = [app EXCEPT !.pc = "done", !.uploaded = ok]
  /\ UNCHANGED <<users, publicKeys, nextKeyId, keyStore, nextKeyPair, run, postReq, clock, call, enc, tokenBlacklist, authReq>>

\* ------------------------------------------------ POST /api/keys/public
DirectPems ==
  {exportPublicKeyAsPem(k) : k \in {ForeignKey, 1, 2}}
    \cup {Pem(ForeignKey, TRUE, ExportedPemLen + 2, TRUE),
          Pem(ForeignKey, FALSE, ExportedPemLen, FALSE),
          Pem(ForeignKey, TRUE, MinPemLen - 1, FALSE),
          EmptyPem}

\* A POST sent outside the registration flow by the holder of a token (or
\* without one); the handler runs its checks (lines 16-84).
DirectPost(i, requester, org, pem) ==
  /\ postReq[i].pc \in {"idle", "done"}
  /\ nextKeyId + Cardinality(InFlight) <= MaxKeyRecords
  /\ postReq' = [postReq EXCEPT ![i] = Arrived(requester, org, pem)]
  /\ UNCHANGED <<users, publicKeys, nextKeyId, keyStore, nextKeyPair, run, app, clock, call, enc, tokenBlacklist, authReq>>

\* newPublicKey.save() (lines 86-134): a duplicate-key error of a unique index
\* is caught by the handler's catch block and answered 500.
PostSave(i) ==
  /\ postReq[i].pc = "checked"
  /\ LET doc == NewPublicKey(postReq[i].requester, postReq[i])
         dup == DuplicateKey(publicKeys, doc)
     IN /\ publicKeys' = IF dup THEN publicKeys ELSE publicKeys \cup {doc}
        /\ nextKeyId' = IF dup THEN nextKeyId ELSE nextKeyId + 1
        /\ postReq' = [postReq EXCEPT ![i] =
                         [@ EXCEPT !.pc = "done",
                                   !.status = IF dup THEN 500 ELSE 201]]
  /\ UNCHANGED <<users, keyStore, nextKeyPair, run, app, clock, call, enc, tokenBlacklist, authReq>>

\* --------------------------------------- PUT /api/keys/public/:keyId
\* The body's publicKeyPem is validated by validateKeyUpload without an
\* organization name; keyType is written as given.
PutKey(requester, keyId, pem, keyType) ==
  /\ authenticateToken(requester)
  /\ \E key \in publicKeys :
       /\ key.keyId = keyId /\ key.user = requester /\ key.isActive
       /\ IF pem # EmptyPem /\ ~validateKeyUpload(pem, "")
          THEN UNCHANGED publicKeys
          ELSE publicKeys' =
                 (publicKeys \ {key}) \cup
                   {[key EXCEPT !.publicKeyPem =
                                   IF pem # EmptyPem THEN trim(pem) ELSE @,
                                !.keyType = keyType]}
  /\ UNCHANGED <<users, nextKeyId, keyStore, nextKeyPair, run, postReq, app, clock, call, enc, tokenBlacklist, authReq>>

\* ------------------------------------ DELETE /api/keys/public/:keyId
\* PublicKey.deactivateKey(keyId): findOneAndUpdate by keyId alone; the
\* update is refused by the compound unique index when the pair already has
\* an inactive document.
deactivateKey(keyId) ==
  IF \E d \in publicKeys : d.keyId = keyId
  THEN LET d == CHOOSE x \in publicKeys : x.keyId = keyId
           upd == [d EXCEPT !.isActive = FALSE]
       IN IF DuplicateKey(publicKeys \ {d}, upd)
          THEN publicKeys
          ELSE (publicKeys \ {d}) \cup {upd}
  ELSE publicKeys

\* deactivateKey(keyId) throws on a duplicate-key error of the compound index.
deactivateKey_throws(keyId) ==
  \E d \in publicKeys :
     d.keyId = keyId /\ DuplicateKey(publicKeys \ {d}, [d EXCEPT !.isActive = FALSE])

\* The status DELETE /public/:keyId answers with (lines 416-464): the key is
\* deactivated first; req.user.id is the user's ObjectId, compared by !== with
\* the string deactivatedKey.user.toString().
DeleteStatus(requester, keyId) ==
  IF deactivateKey_throws(keyId) THEN 500
  ELSE IF ~\E d \in publicKeys : d.keyId = keyId THEN 404
  ELSE IF \E d \in publicKeys : d.keyId = keyId /\ toString(d.user) # ObjectId(requester)
       THEN 404
  ELSE 200

DeleteKey(requester, keyId) ==
  /\ authenticateToken(requester)
  /\ publicKeys' = deactivateKey(keyId)
  /\ UNCHANGED <<users, nextKeyId, keyStore, nextKeyPair, run, postReq, app, clock, call, enc, tokenBlacklist, authReq>>

\* -------------------------------------------------------------- /auth
\* POST /auth/logout with an access token.
Logout(token) ==
  /\ LET answer == LogoutAnswer(tokenBlacklist, token)
     IN /\ tokenBlacklist' = answer.blacklist
        /\ authReq' = [authReq EXCEPT
                         !.last = [op |-> "logout", token |-> token,
                                   status |-> answer.status, code |-> answer.code]]
  /\ UNCHANGED <<users, publicKeys, nextKeyId, keyStore, nextKeyPair, run, postReq, app, clock, call, enc>>

\* GET /auth/me: authenticateToken, then getCurrentUser.
GetMe(token) ==
  /\ authReq' = [authReq EXCEPT
                   !.last = [op |-> "me", token |-> token,
                             status |-> IF AuthCode(tokenBlacklist, token) = "OK"
                                        THEN 200 ELSE 401,
                             code |-> AuthCode(tokenBlacklist, token)]]
  /\ UNCHANGED <<users, publicKeys, nextKeyId, keyStore, nextKeyPair, run, postReq, app, clock, call, enc, tokenBlacklist>>

\* POST /auth/refresh, lines 349-378: the checks made before the handler
\* awaits User.findById.
RefreshArrive(i, token) ==
  /\ authReq.refresh[i].pc \in {"idle", "done"}
  /\ LET code == RefreshCheck(tokenBlacklist, token)
     IN authReq' = [authReq EXCEPT
                      !.refresh[i] = [pc |-> IF code = "OK" THEN "findById" ELSE "done",
                                      token |-> token,
                                      status |-> IF code = "OK" THEN 0 ELSE 401]]
  /\ UNCHANGED <<users, publicKeys, nextKeyId, keyStore, nextKeyPair, run, postReq, app, clock, call, enc, tokenBlacklist>>

\* POST /auth/refresh, lines 380-404: the user is there, new tokens are
\* generated, the old refresh token is blacklisted, the tokens are sent.
RefreshIssue(i) ==
  /\ authReq.refresh[i].pc = "findById"
  /\ authReq.iat <= MaxTokens
  /\ LET token == authReq.refresh[i].token
         found == \E u \in users : u.id = token.userId /\ u.isActive
         tokens == generateTokens(token.userId, authReq.iat)
     IN IF found
        THEN /\ tokenBlacklist' = blacklistToken(tokenBlacklist, token)
             /\ authReq' = [authReq EXCEPT
                              !.refresh[i] = [@ EXCEPT !.pc = "done", !.status = 200],
                              !.iat = @ + 1,
                              !.answered = @ \cup {[old |-> token, tokens |-> tokens]}]
        ELSE /\ tokenBlacklist' = tokenBlacklist
             /\ authReq' = [authReq EXCEPT
                              !.refresh[i] = [@ EXCEPT !.pc = "done", !.status = 401]]
  /\ UNCHANGED <<users, publicKeys, nextKeyId, keyStore, nextKeyPair, run, postReq, app, clock, call, enc>>

\* POST /auth/register sent outside the CreateAccount flow.
DirectRegister(pf, org) ==
  /\ Cardinality(users) < MaxUsers
  /\ LET body == [username |-> pf[1], email |-> pf[2], organizationName |-> org]
     IN /\ registerFunction(body) = 201
        /\ users' = users \cup {NewUser(body)}
  /\ UNCHANGED <<publicKeys, nextKeyId, keyStore, nextKeyPair, run, postReq, app, clock, call, enc, tokenBlacklist, authReq>>

\* ------------------------------------------------------ specification
\* ---------------------------------------------- calls of the key store
ServerVars == <<users, publicKeys, nextKeyId, nextKeyPair, run, postReq, app, enc, tokenBlacklist, authReq>>

Client_storeEncryptedPrivateKey(k, password, organizationName, userId, fault) ==
  /\ clock < MaxCalls
  /\ LET stored == storeEncryptedPrivateKey(keyStore, k, password,
                     organizationName, userId, fault, clock)
     IN /\ keyStore' = stored.store
        /\ call' = Called("storeEncryptedPrivateKey", userId, organizationName,
                          password, fault, stored.outcome)
  /\ clock' = clock + 1
  /\ UNCHANGED ServerVars

Client_updateStoredKeyUserId(tempUserId, actualUserId, organizationName, fault) ==
  /\ clock < MaxCalls
  /\ LET moved == updateStoredKeyUserId(keyStore, tempUserId, actualUserId,
                                        organizationName, fault)
     IN /\ keyStore' = moved.store
        /\ call' = Called("updateStoredKeyUserId", tempUserId, organizationName,
                          actualUserId, fault, moved.outcome)
  /\ clock' = clock + 1
  /\ UNCHANGED ServerVars

Client_hasKeysForOrganization(userId, organizationName, fault) ==
  /\ clock < MaxCalls
  /\ call' = Called("hasKeysForOrganization", userId, organizationName, "", fault,
                    hasKeysForOrganization(keyStore, userId, organizationName, fault))
  /\ clock' = clock + 1
  /\ UNCHANGED <<keyStore, ServerVars>>

Client_getUserKeys(userId, fault) ==
  /\ clock < MaxCalls
  /\ call' = Called("getUserKeys", userId, "", "", fault,
                    getUserKeys(keyStore, userId, fault))
  /\ clock' = clock + 1
  /\ UNCHANGED <<keyStore, ServerVars>>

Client_loadEncryptedPrivateKey(password, organizationName, userId, fault) ==
  /\ clock < MaxCalls
  /\ call' = Called("loadEncryptedPrivateKey", userId, organizationName, password,
                    fault,
                    loadEncryptedPrivateKey(keyStore, password, organizationName,
                                            userId, fault))
  /\ clock' = clock + 1
  /\ UNCHANGED <<keyStore, ServerVars>>

\* CryptoUtils.decryptPrivateKey on the data of the record stored for
\* (userId, organizationName), read the way loadEncryptedPrivateKey reads it.
Client_decryptPrivateKey(password, organizationName, userId) ==
  /\ clock < MaxCalls
  /\ \E rec \in StoreGet(keyStore, StoreId(userId, organizationName)) :
       call' = Called("decryptPrivateKey", userId, organizationName, password,
                      "none",
                      decryptPrivateKey([encrypted |-> rec.encrypted,
                                         salt |-> Uint8Array(rec.salt),
                                         iv |-> Uint8Array(rec.iv)], password))
  /\ clock' = clock + 1
  /\ UNCHANGED <<keyStore, ServerVars>>

Client_deletePrivateKey(userId, organizationName, fault) ==
  /\ clock < MaxCalls
  /\ LET deleted == deletePrivateKey(keyStore, userId, organizationName, fault)
     IN /\ keyStore' = deleted.store
        /\ call' = Called("deletePrivateKey", userId, organizationName, "", fault,
                          deleted.outcome)
  /\ clock' = clock + 1
  /\ UNCHANGED ServerVars

Client_clearAllUserKeys(userId, fault) ==
  /\ clock < MaxCalls
  /\ LET cleared == clearAllUserKeys(keyStore, userId, fault)
     IN /\ keyStore' = cleared.store
        /\ call' = Called("clearAllUserKeys", userId, "", "", fault,
                          cleared.outcome)
  /\ clock' = clock + 1
  /\ UNCHANGED ServerVars

\* A stored record is modified outside the service: its ciphertext, its salt
\* or its iv no longer is what the wrap wrote.
Corrupted(rec, field) ==
  CASE field = "encrypted" -> [rec EXCEPT !.encrypted.intact = FALSE]
    [] field = "salt" -> [rec EXCEPT !.salt[2] = (@ + 1) % 256]
    [] field = "iv" -> [rec EXCEPT !.iv[2] = (@ + 1) % 256]

Corrupt(id, field) ==
  /\ clock < MaxCalls
  /\ \E rec \in StoreGet(keyStore, id) :
       keyStore' = StorePut(keyStore, Corrupted(rec, field))
  /\ clock' = clock + 1
  /\ UNCHANGED <<call, ServerVars>>

\* ------------------------------------------ calls of a CryptoUtils instance
\* A call as the page remembers it; tamper is what went wrong with the call's
\* input or with its storage request, "none" if nothing did.
UtilsCall(op, password, tamper, outcome, decrypted) ==
  [op |-> op, password |-> password, tamper |-> tamper, outcome |-> outcome,
   decrypted |-> decrypted]

KeyFiles == {KeyFile("pem", ForeignKey), KeyFile("spki", ForeignKey), KeyFile("text", NullKey)}

Tampers == {"none", "truncate", "append", "flip", "flipLast"}

\* Encrypted data as it reaches decryptFile: as it was made, a byte short, a
\* byte long, or with a byte of its first or last block changed.
Tampered(data, tamper) ==
  LET n == Len(data.blocks)
  IN IF tamper = "append" THEN [data EXCEPT !.rest = 1]
     ELSE IF n = 0 \/ tamper = "none" THEN data
     ELSE IF tamper = "truncate"
          THEN [blocks |-> SubSeq(data.blocks, 1, n - 1),
                rest |-> (modulusLength \div 8) - 1]
     ELSE IF tamper = "flip" THEN [data EXCEPT !.blocks[1].intact = FALSE]
     ELSE [data EXCEPT !.blocks[n].intact = FALSE]

\* CryptoUtils.generateKeyPair
Utils_generateKeyPair ==
  /\ nextKeyPair <= MaxKeyPairs
  /\ app' = [app EXCEPT !.keyPair = KeyPair(nextKeyPair),
                        !.last = UtilsCall("generateKeyPair", "", "none",
                                           Returned(KeyPair(nextKeyPair)), 0)]
  /\ nextKeyPair' = nextKeyPair + 1
  /\ UNCHANGED <<users, publicKeys, nextKeyId, keyStore, run, postReq, clock, call, enc, tokenBlacklist, authReq>>

\* CryptoUtils.storeEncryptedPrivateKey(this.keyPair.privateKey, password)
Utils_storeEncryptedPrivateKey(password, fault) ==
  /\ clock < MaxCalls
  /\ app.keyPair # NullPair
  /\ LET stored == CryptoUtils_storeEncryptedPrivateKey(app.store, app.keyPair.privateKey,
                                                        password, fault, clock)
     IN app' = [app EXCEPT !.store = stored.store,
                           !.last = UtilsCall("storeEncryptedPrivateKey", password,
                                              "none", stored.outcome, 0)]
  /\ clock' = clock + 1
  /\ UNCHANGED <<users, publicKeys, nextKeyId, keyStore, nextKeyPair, run, postReq, call, enc, tokenBlacklist, authReq>>

\* CryptoUtils.loadEncryptedPrivateKey(password)
Utils_loadEncryptedPrivateKey(password, fault) ==
  /\ LET loaded == CryptoUtils_loadEncryptedPrivateKey(app.keyPair, app.store,
                                                       password, fault)
     IN app' = [app EXCEPT !.keyPair = loaded.keyPair,
                           !.last = UtilsCall("loadEncryptedPrivateKey", password,
                                              fault, loaded.outcome, 0)]
  /\ UNCHANGED <<users, publicKeys, nextKeyId, keyStore, nextKeyPair, run, postReq, clock, call, enc, tokenBlacklist, authReq>>

\* CryptoUtils.importPublicKeyFromFile(file)
Utils_importPublicKeyFromFile(file) ==
  /\ LET imported == CryptoUtils_importPublicKeyFromFile(file)
     IN app' = [app EXCEPT !.importedPublicKey =
                             IF imported.ok THEN imported.value ELSE @,
                           !.last = UtilsCall("importPublicKeyFromFile", "", "none",
                                              imported, 0)]
  /\ UNCHANGED <<users, publicKeys, nextKeyId, keyStore, nextKeyPair, run, postReq, clock, call, enc, tokenBlacklist, authReq>>

\* FileEncryptionApp.encryptFile: this.encryptedFile =
\* cryptoUtils.encryptFile(this.currentFile), no key handed over.
Utils_encryptFile(len) ==
  /\ LET encrypted == CryptoUtils_encryptFile(Payload(len), NullKey, app.keyPair,
                                              app.importedPublicKey)
     IN app' = [app EXCEPT !.currentFile = Payload(len),
                           !.encryptedFile = IF encrypted.ok THEN encrypted.value ELSE @,
                           !.last = UtilsCall("encryptFile", "", "none", encrypted, 0)]
  /\ UNCHANGED <<users, publicKeys, nextKeyId, keyStore, nextKeyPair, run, postReq, clock, call, enc, tokenBlacklist, authReq>>

\* cryptoUtils.decryptFile(encryptedData), no key handed over.
Utils_decryptFile(tamper) ==
  /\ LET done == CryptoUtils_decryptFile(Tampered(app.encryptedFile, tamper), NullKey,
                                         app.keyPair)
     IN app' = [app EXCEPT !.last = UtilsCall("decryptFile", "", tamper, done.outcome,
                                              done.decrypted)]
  /\ UNCHANGED <<users, publicKeys, nextKeyId, keyStore, nextKeyPair, run, postReq, clock, call, enc, tokenBlacklist, authReq>>

\* The page is opened again: a new FileEncryptionApp and CryptoUtils over the
\* database the browser kept.
Reload ==
  /\ app # NewApp(app.store)
  /\ app' = NewApp(app.store)
  /\ UNCHANGED <<users, publicKeys, nextKeyId, keyStore, nextKeyPair, run, postReq, clock, call, enc, tokenBlacklist, authReq>>

\* CryptoUtils.encryptFile on a file of byteLength bytes.
EncryptFile(byteLength, keyToUse) ==
  /\ enc' = [called |-> TRUE, byteLength |-> byteLength, keyToUse |-> keyToUse,
             outcome |-> encryptFile(byteLength, keyToUse)]
  /\ UNCHANGED <<users, publicKeys, nextKeyId, keyStore, nextKeyPair, run,
                 postReq, app, clock, call, tokenBlacklist, authReq>>

\* The registration flow against the key server, with one further client
\* that holds a user's token.
Next ==
  \/ \E r \in Runs : RunGenerate(r)
  \/ \E r \in Runs : RunRegister(r)
  \/ \E r \in Runs : RunUploadSend(r)
  \/ \E r \in Runs : RunUploadResult(r)
  \/ \E r \in Runs : RunStore(r)
  \/ \E i \in DirectIds, u \in UserIds :
       DirectPost(i, u, "acme", exportPublicKeyAsPem(ForeignKey))
  \/ \E i \in ReqIds : PostSave(i)
  \/ \E u \in UserIds, k \in 1..MaxKeyRecords, t \in KeyTypes :
       PutKey(u, k, EmptyPem, t)
  \/ \E u \in UserIds, k \in 1..MaxKeyRecords : DeleteKey(u, k)

Spec == Init /\ [][Next]_vars

\* The key server alone, driven through its API with the full input sets.
NextServer ==
  \/ \E pf \in Profiles, org \in FormOrgNames : DirectRegister(pf, org)
  \/ \E u \in UserIds \cup {NoUser}, org \in ApiOrgNames, pem \in DirectPems :
       DirectPost(ServerSlot, u, org, pem)
  \/ PostSave(ServerSlot)
  \/ \E u \in UserIds, k \in 1..MaxKeyRecords,
        pem \in {EmptyPem, exportPublicKeyAsPem(ForeignKey)}, t \in KeyTypes :
       PutKey(u, k, pem, t)
  \/ \E u \in UserIds, k \in 1..MaxKeyRecords : DeleteKey(u, k)

SpecServer == Init /\ [][NextServer]_vars

\* Every operation of the clients that persists a private key.
NextKeyGen ==
  \/ \E r \in Runs : RunGenerate(r)
  \/ \E r \in Runs : RunRegister(r)
  \/ \E r \in Runs : RunUploadSend(r)
  \/ \E r \in Runs : RunUploadResult(r)
  \/ \E r \in Runs : RunStore(r)
  \/ \E i \in Runs : PostSave(i)
  \/ \E pw \in Passwords, org \in FormOrgNames : generateKeysForRegistration(pw, org)
  \/ \E pw \in Passwords : AppGenerateKeys(pw)
  \/ AppUploadSettled

SpecKeyGen == Init /\ [][NextKeyGen]_vars

\* The key store driven through the API of cryptoService.
NextStore ==
  \/ \E k \in PrivateKeys, pw \in Passwords, org \in StoreOrgNames,
        u \in StoreUserIds, f \in Faults :
       Client_storeEncryptedPrivateKey(k, pw, org, u, f)
  \/ \E t \in StoreUserIds, a \in StoreUserIds, org \in StoreOrgNames,
        f \in RekeyFaults :
       Client_updateStoredKeyUserId(t, a, org, f)
  \/ \E u \in StoreUserIds, org \in StoreOrgNames, f \in Faults :
       Client_hasKeysForOrganization(u, org, f)
  \/ \E u \in StoreUserIds, f \in Faults : Client_getUserKeys(u, f)
  \/ \E pw \in LoadPasswords, org \in StoreOrgNames, u \in StoreUserIds,
        f \in Faults :
       Client_loadEncryptedPrivateKey(pw, org, u, f)
  \/ \E pw \in LoadPasswords, org \in StoreOrgNames, u \in StoreUserIds :
       Client_decryptPrivateKey(pw, org, u)
  \/ \E u \in StoreUserIds, org \in StoreOrgNames, f \in Faults :
       Client_deletePrivateKey(u, org, f)
  \/ \E u \in StoreUserIds, f \in Faults : Client_clearAllUserKeys(u, f)
  \/ \E rec \in keyStore, field \in {"encrypted", "salt", "iv"} :
       Corrupt(rec.id, field)

SpecStore == Init /\ [][NextStore]_vars

\* CryptoUtils.encryptFile on files of every length up to MaxFileLen.
NextUtils ==
  \/ Utils_generateKeyPair
  \/ \E password \in Passwords, fault \in {"none", "request"} : Utils_storeEncryptedPrivateKey(password, fault)
  \/ \E password \in LoadPasswords, fault \in {"none", "request"} : Utils_loadEncryptedPrivateKey(password, fault)
  \/ \E file \in KeyFiles : Utils_importPublicKeyFromFile(file)
  \/ \E len \in PayloadLens : Utils_encryptFile(len)
  \/ \E tamper \in Tampers : Utils_decryptFile(tamper)
  \/ Reload

SpecUtils == Init /\ [][NextUtils]_vars

NextAuth ==
  \/ \E pf \in FormProfiles, org \in FormOrgNames : DirectRegister(pf, org)
  \/ \E token \in AccessTokens : Logout(token)
  \/ \E token \in AccessTokens : GetMe(token)
  \/ \E i \in 1..MaxRefresh, token \in IssuedTokens : RefreshArrive(i, token)
  \/ \E i \in 1..MaxRefresh : RefreshIssue(i)

SpecAuth == Init /\ [][NextAuth]_vars

NextFile ==
  \E byteLength \in 0..MaxFileLen, keyToUse \in BOOLEAN :
    EncryptFile(byteLength, keyToUse)

SpecFile == Init /\ [][NextFile]_vars

\* ================================================================ claims
UploadFailed(r) == run[r].keyUploadResult.done /\ ~run[r].keyUploadResult.success

RegistrationFailed(r) == run[r].data.done /\ ~run[r].data.success

\* The private key wrapped in a stored record.
KeyOf(rec) == importKey(rec.encrypted.plaintext)

\* The organization a name typed by a client refers to.
OrgOf(name) == IF name = "Acme" THEN "acme" ELSE name

HasPublicKey(userId, org) ==
  \E d \in publicKeys : d.user = userId /\ d.organization = OrgOf(org)

HasActivePublicKey(userId, org) ==
  \E d \in publicKeys :
    d.user = userId /\ d.organization = OrgOf(org) /\ d.isActive

UploadCompleted(k) ==
  \/ \E r \in Runs : run[r].keyPair = k /\ run[r].keyUploadResult.success
  \/ app.keyPair.publicKey = k /\ app.uploaded

AccountOf(r) == \E u \in users : u.id = run[r].data.userId
PublicKeyOf(r) == HasActivePublicKey(run[r].data.userId, run[r].organizationName)
PrivateKeyOf(r) == \E rec \in keyStore : KeyOf(rec) = run[r].keyPair

AllOrNothing(r) ==
  \/ AccountOf(r) /\ PublicKeyOf(r) /\ PrivateKeyOf(r)
  \/ ~AccountOf(r) /\ ~PublicKeyOf(r) /\ ~PrivateKeyOf(r)

\* C5: when a run of the registration flow ends, the account, the active
\* public key and the stored private key all exist or none of them does.
C5_AllOrNothing ==
  [][\A r \in Runs :
       (~Terminal(run[r].pc) /\ Terminal(run'[r].pc)) => AllOrNothing(r)']_vars

\* C6: after a failed store write nothing of the run is committed, so the
\* registration step of a retry with the same form data is accepted.
C6_RetryAfterStorageFailure ==
  \A r \in Runs :
    run[r].pc = "StorageFailed" =>
      /\ ~AccountOf(r)
      /\ ~HasPublicKey(run[r].data.userId, run[r].organizationName)
      /\ registerFunction([username |-> run[r].username, email |-> run[r].email,
                           organizationName |-> run[r].organizationName]) = 201

\* C7: at most one active PublicKey record per (organization, user).
C7_AtMostOneActive ==
  \A d1, d2 \in publicKeys :
    (d1.organization = d2.organization /\ d1.user = d2.user
       /\ d1.isActive /\ d2.isActive) => d1 = d2

\* Two uploads of the same user for the same organization were in flight
\* together: both passed the existing-key lookup, one was saved.
C7_Witness ==
  \E i, j \in ReqIds :
    /\ i # j
    /\ postReq[i].requester = postReq[j].requester
    /\ OrgOf(postReq[i].organizationName) = OrgOf(postReq[j].organizationName)
    /\ postReq[i].publicKeyPem # postReq[j].publicKeyPem
    /\ postReq[i].status = 201
    /\ postReq[j].status = 500

\* The handler takes up a request in slot i in this step.
Arrives(i) ==
  /\ postReq[i].pc # "checked"
  /\ postReq'[i] # postReq[i]
  /\ postReq'[i].pc \in {"checked", "done"}

C9_Expected(requester, org, pem) ==
  LET text == IF pem.ws THEN [pem EXCEPT !.len = pem.len - 2] ELSE pem
      valid == pem.len > 0 /\ text.markers /\ text.len >= 400 /\ text.len <= 10000
  IN IF ~valid THEN 400
     ELSE IF OrgOf(org) \notin Organizations THEN 400
     ELSE IF ~\E u \in users :
               u.id = requester /\ u.organization = OrgOf(org) /\ u.isActive
          THEN 403
     ELSE IF HasActivePublicKey(requester, org) THEN 409
     ELSE 201

\* C9: POST /api/keys/public answers invalid key data 400, an unknown
\* organization 400, a non-member 403, an existing active key 409, in that
\* order, and creates a PublicKey record in the 201 outcome only.
C9_UploadOutcomes ==
  [][\A i \in ReqIds :
       /\ (Arrives(i) /\ postReq'[i].requester \in UserIds) =>
            LET e == C9_Expected(postReq'[i].requester, postReq'[i].organizationName,
                                 postReq'[i].publicKeyPem)
            IN /\ e # 201 => postReq'[i].pc = "done" /\ postReq'[i].status = e
               /\ e = 201 => postReq'[i].pc = "checked"
               /\ publicKeys' = publicKeys
       /\ (postReq[i].pc = "checked" /\ postReq'[i].pc = "done") =>
            /\ postReq'[i].status \in {201, 500}
            /\ postReq'[i].status = 201 =>
                 \E d \in publicKeys' :
                   /\ d \notin publicKeys
                   /\ publicKeys' = publicKeys \cup {d}
                   /\ d.user = postReq[i].requester
                   /\ d.organization = OrgOf(postReq[i].organizationName)
                   /\ d.isActive
            /\ postReq'[i].status # 201 => publicKeys' = publicKeys]_vars

\* A request of a user who is not a member of the organization was refused.
C9_Witness ==
  \E i \in ReqIds : postReq[i].pc = "done" /\ postReq[i].status = 403

\* C10: an upload whose PEM has the fingerprint of a key stored for another
\* user is rejected with an outcome of its own: not 409, not 500.
C10_FingerprintCollisionOutcome ==
  [][\A i \in ReqIds :
       (/\ postReq[i].pc = "checked" /\ postReq'[i].pc = "done"
        /\ \E d \in publicKeys :
             /\ d.keyFingerprint = sha256(trim(postReq[i].publicKeyPem))
             /\ d.user # postReq[i].requester)
       => /\ postReq'[i].status \notin {201, 409, 500}
          /\ publicKeys' = publicKeys]_vars

\* ------------------------------------------------- claims on the key store
\* A step that is a call of the given method of the key-store API.
Calls(op) == call'.at # call.at /\ call'.op = op

\* The ids a call of updateStoredKeyUserId moves a record between.
OldIdOf(c) == StoreId(c.userId, c.organizationName)
NewIdOf(c) == StoreId(c.arg, c.organizationName)

\* The records other than those under the given ids are the same in both stores.
SameExcept(ids, before, after) ==
  {x \in before : x.id \notin ids} = {x \in after : x.id \notin ids}

\* C11: when a record is stored under oldId, oldId # newId and the storage
\* does not fail, updateStoredKeyUserId returns true; afterwards newId holds
\* the original record (same encrypted bytes, salt, iv, timestamp and
\* organizationName, id and userId rewritten), oldId holds nothing, and no
\* other record has changed.
C11_RekeyMovesRecord ==
  [][(/\ Calls("updateStoredKeyUserId")
      /\ call'.fault = "none"
      /\ OldIdOf(call') # NewIdOf(call')
      /\ StoreGet(keyStore, OldIdOf(call')) # {})
     => /\ call'.outcome = Returned(TRUE)
        /\ StoreGet(keyStore', OldIdOf(call')) = {}
        /\ \E old \in StoreGet(keyStore, OldIdOf(call')) :
             \E new \in StoreGet(keyStore', NewIdOf(call')) :
               /\ StoreGet(keyStore', NewIdOf(call')) = {new}
               /\ new.encrypted = old.encrypted
               /\ new.salt = old.salt
               /\ new.iv = old.iv
               /\ new.timestamp = old.timestamp
               /\ new.organizationName = old.organizationName
               /\ new.id = NewIdOf(call')
               /\ new.userId = call'.arg
        /\ SameExcept({OldIdOf(call'), NewIdOf(call')}, keyStore, keyStore')]_vars

\* A record was moved from the placeholder id to a user's id, next to a
\* record of another id, at a later time than it was stored.
C11_Witness ==
  /\ call.op = "updateStoredKeyUserId"
  /\ call.outcome = Returned(TRUE)
  /\ call.userId = "temp_user_id"
  /\ call.arg = "u1"
  /\ \E rec \in StoreGet(keyStore, NewIdOf(call)) : rec.timestamp < call.at - 1
  /\ StoreGet(keyStore, OldIdOf(call)) = {}
  /\ \E x \in keyStore : x.id # NewIdOf(call)

\* C12: updateStoredKeyUserId called when no record exists under the
\* temporary id leaves the store unchanged, a record already stored under the
\* new id included, and returns false.
C12_RekeyOfNothing ==
  [][(/\ Calls("updateStoredKeyUserId")
      /\ StoreGet(keyStore, OldIdOf(call')) = {})
     => /\ keyStore' = keyStore
        /\ call'.outcome = Returned(FALSE)]_vars

\* The call found nothing under the temporary id while the new id held a
\* record, which is still there.
C12_Witness ==
  /\ call.op = "updateStoredKeyUserId"
  /\ call.fault = "none"
  /\ call.outcome = Returned(FALSE)
  /\ StoreGet(keyStore, OldIdOf(call)) = {}
  /\ StoreGet(keyStore, NewIdOf(call)) # {}

IdOf(c) == StoreId(c.userId, c.organizationName)

\* C14: a lookup that finds no record under the id returns something else
\* than the same lookup returns when the database cannot be opened or the
\* read request fails, for hasKeysForOrganization and for
\* loadEncryptedPrivateKey.
C14_AbsenceDistinctFromFailure ==
  /\ (/\ call.op = "hasKeysForOrganization"
      /\ call.fault = "none"
      /\ StoreGet(keyStore, IdOf(call)) = {})
     => \A f \in Faults \ {"none"} :
          call.outcome # hasKeysForOrganization(keyStore, call.userId,
                                                call.organizationName, f)
  /\ (/\ call.op = "loadEncryptedPrivateKey"
      /\ call.fault = "none"
      /\ StoreGet(keyStore, IdOf(call)) = {})
     => \A f \in Faults \ {"none"} :
          call.outcome # loadEncryptedPrivateKey(keyStore, call.arg,
                                                 call.organizationName,
                                                 call.userId, f)

\* C15: deletePrivateKey, when the storage does not fail, returns true,
\* removes the record under the composite id and leaves every other record
\* as it was; called again with the same arguments it returns true again
\* and leaves the store as the first call left it.
C15_DeleteIdempotent ==
  [][(Calls("deletePrivateKey") /\ call'.fault = "none")
     => /\ call'.outcome = Returned(TRUE)
        /\ StoreGet(keyStore', IdOf(call')) = {}
        /\ SameExcept({IdOf(call')}, keyStore, keyStore')
        /\ call'.repeats => (call.outcome = Returned(TRUE) /\ keyStore' = keyStore)]_vars

\* deletePrivateKey was called a second time with the same arguments.
C15_Witness ==
  /\ call.op = "deletePrivateKey"
  /\ call.repeats
  /\ call.fault = "none"
  /\ call.outcome = Returned(TRUE)
  /\ StoreGet(keyStore, IdOf(call)) = {}

\* C16: after clearAllUserKeys(u) returned true, no record with userId u is
\* left and the records of other users are as they were; getUserKeys(u),
\* when the storage does not fail, returns one entry per stored record whose
\* userId is u and no other entry.
C16_ClearAndList ==
  [][/\ (Calls("clearAllUserKeys") /\ call'.outcome = Returned(TRUE))
        => /\ ~\E x \in keyStore' : x.userId = call'.userId
           /\ keyStore' \subseteq keyStore
           /\ \A x \in keyStore : x.userId # call'.userId => x \in keyStore'
     /\ (Calls("getUserKeys") /\ call'.fault = "none")
        => LET entries == call'.outcome.value
               records(o) == {x \in keyStore : /\ x.userId = call'.userId
                                               /\ x.organizationName = o}
           IN /\ \A o \in DOMAIN entries : entries[o] = Cardinality(records(o))
              /\ \A x \in keyStore :
                   x.userId = call'.userId => x.organizationName \in DOMAIN entries
              /\ \A o \in DOMAIN entries : records(o) # {}]_vars

\* clearAllUserKeys removed the records of a user and left another user's.
C16_Witness ==
  /\ call.op = "clearAllUserKeys"
  /\ call.found
  /\ call.outcome = Returned(TRUE)
  /\ keyStore # {}

\* C17: the composite id is collision-free: two different (userId,
\* organizationName) pairs, the placeholder userId and organization names
\* with underscores included, have different ids, so that storing a key for
\* one pair leaves the record of every other pair in place.
C17_CompositeIdCollisionFree ==
  [][Calls("storeEncryptedPrivateKey")
     => \A x \in keyStore :
          <<x.userId, x.organizationName>> # <<call'.userId, call'.organizationName>>
            => /\ x.id # IdOf(call')
               /\ x \in keyStore']_vars

\* C18: a private key k stored with storeEncryptedPrivateKey(k, p, org, user)
\* and loaded with loadEncryptedPrivateKey(p, org, user), the record under
\* that id being the one the store wrote, comes back as a key with the key
\* material of k.
C18_WrapRoundTrip ==
  [][(Calls("loadEncryptedPrivateKey") /\ call'.fault = "none")
     => \A k \in PrivateKeys, t \in 0..clock :
          StoredKeyData(k, call'.arg, call'.organizationName, call'.userId, t)
              \in keyStore
            => /\ call'.outcome.ok
               /\ call'.outcome.value = CryptoKey(k)]_vars

\* A key was loaded back with the password it was stored with.
C18_Witness ==
  /\ call.op = "loadEncryptedPrivateKey"
  /\ call.fault = "none"
  /\ \E k \in PrivateKeys, t \in 0..clock :
       /\ StoredKeyData(k, call.arg, call.organizationName, call.userId, t)
            \in keyStore
       /\ call.outcome = Returned(CryptoKey(k))

\* The record was wrapped under another password than the given one, or its
\* ciphertext, salt or iv is not what the wrap wrote.
Mismatch(rec, password) ==
  \/ rec.encrypted.key # deriveKeyFromPassword(password, rec.salt)
  \/ rec.encrypted.iv # rec.iv
  \/ ~rec.encrypted.intact

\* C19: unwrapping a stored record with another password than it was wrapped
\* with, or after its ciphertext, salt or iv was modified, yields no key:
\* CryptoUtils.decryptPrivateKey throws, cryptoService.loadEncryptedPrivateKey
\* returns null, and the stored record stays as it is.
C19_UnwrapRejects ==
  [][\A rec \in StoreGet(keyStore, IdOf(call')) :
       Mismatch(rec, call'.arg)
         => /\ Calls("loadEncryptedPrivateKey")
                 => call'.outcome = Returned(Null) /\ keyStore' = keyStore
            /\ Calls("decryptPrivateKey")
                 => ~call'.outcome.ok /\ keyStore' = keyStore]_vars

\* loadEncryptedPrivateKey was given the wrong password for an intact record.
C19_Witness ==
  /\ call.op = "loadEncryptedPrivateKey"
  /\ call.fault = "none"
  /\ call.outcome = Returned(Null)
  /\ \E rec \in StoreGet(keyStore, IdOf(call)) :
       /\ rec.encrypted.intact
       /\ rec.encrypted.key # deriveKeyFromPassword(call.arg, rec.salt)

\* ---------------------------------------------- claims on the chunk cipher
\* ceil(max(1, len) / 190) * 256
C20_Expected(len) ==
  LET n == IF len < 1 THEN 1 ELSE len
  IN ((n + 189) \div 190) * 256

\* C20: for every payload, the empty one included, encryptFile returns
\* ceil(max(1, len) / 190) * 256 bytes: one 256-byte block per chunk of at
\* most 190 bytes, and a single block for the empty payload.
C20_CiphertextLength ==
  (enc.called /\ enc.keyToUse)
    => enc.outcome = Returned(C20_Expected(enc.byteLength))

\* ------------------------------------------- claims on the CryptoUtils page
\* The data the last decryptFile call was given.
DecryptInput == Tampered(app.encryptedFile, app.last.tamper)

\* The encrypted file of the page is the encryption of its current file under
\* the public key of the pair whose private key the instance holds.
EncryptedForOwnKey ==
  /\ app.keyPair.privateKey # NullKey
  /\ CryptoUtils_encryptFile(app.currentFile, app.keyPair.privateKey, NullPair, NullKey)
       = Returned(app.encryptedFile)

\* C21: decrypting the unmodified encryption of a file with the matching
\* private key returns the file, chunk i of it coming from block i and the
\* chunks joined in ascending order; this holds for the empty file and for
\* files of exactly one chunk and of one byte more.
C21_ChunkRoundTrip ==
  (app.last.op = "decryptFile" /\ app.last.tamper = "none" /\ EncryptedForOwnKey)
    => /\ app.last.outcome = Returned(app.currentFile)
       /\ app.last.decrypted = Len(app.encryptedFile.blocks)
       /\ \A i \in 1..Len(app.encryptedFile.blocks) :
            app.encryptedFile.blocks[i].plaintext
              = slice(app.currentFile, (i - 1) * chunkSize, i * chunkSize)

C21_Witness ==
  /\ app.last.op = "decryptFile" /\ app.last.tamper = "none" /\ EncryptedForOwnKey
  /\ Len(app.currentFile) = chunkSize + 1
  /\ app.last.outcome.ok

\* The blocks of the data given to the last decryptFile call that the key of
\* the instance does not decrypt, the bytes after the last whole block counting
\* as one more block.
FailingBlocks ==
  {i \in 1..Len(DecryptInput.blocks) :
     ~rsa_decrypt(app.keyPair.privateKey, DecryptInput.blocks[i]).ok}
  \cup (IF DecryptInput.rest > 0 THEN {Len(DecryptInput.blocks) + 1} ELSE {})

FirstFailingBlock == CHOOSE i \in FailingBlocks : \A j \in FailingBlocks : i <= j

\* C22: encrypted data whose length is not a multiple of 256 is rejected
\* before any block is decrypted, and no plaintext is returned.
C22_LengthRejected ==
  (app.last.op = "decryptFile" /\ ByteLength(DecryptInput) % (modulusLength \div 8) # 0)
    => ~app.last.outcome.ok /\ app.last.decrypted = 0

\* C23: when a block fails to decrypt the whole call fails at the first such
\* block and returns no plaintext.
C23_AllOrNothing ==
  (app.last.op = "decryptFile" /\ app.keyPair.privateKey # NullKey /\ FailingBlocks # {})
    => ~app.last.outcome.ok /\ app.last.decrypted = FirstFailingBlock - 1

C23_Witness ==
  /\ app.last.op = "decryptFile" /\ app.keyPair.privateKey # NullKey
  /\ FailingBlocks # {} /\ FirstFailingBlock > 1
  /\ DecryptInput.rest = 0
  /\ ~app.last.outcome.ok

\* A step that is a call of loadEncryptedPrivateKey.
LoadStep ==
  /\ app'.last.op = "loadEncryptedPrivateKey"
  /\ \/ app.last.op # "loadEncryptedPrivateKey"
     \/ app'.last.password # app.last.password
     \/ app'.last.tamper # app.last.tamper
     \/ app'.last.outcome.ok # app.last.outcome.ok

\* The stored private key opens with the password.
Opens(store, password) ==
  \E rec \in StoreGet(store, "privateKey") : ~Mismatch(rec, password)

\* C24: in a new instance over a database that holds a private key stored
\* with password p, loadEncryptedPrivateKey(p) succeeds and the instance
\* holds that private key.
C24_CrossSessionLoad ==
  [][(LoadStep /\ app.keyPair = NullPair /\ app'.last.tamper = "none"
        /\ Opens(app.store, app'.last.password))
       => /\ app'.last.outcome.ok
          /\ \E rec \in StoreGet(app.store, "privateKey") :
               app'.keyPair.privateKey = KeyOf(rec)]_vars

\* ------------------------------------------------- claims on sessions
\* C25: once POST /auth/logout has answered an access token with success,
\* the request with that token to an endpoint behind authenticateToken that
\* follows is answered 401 TOKEN_REVOKED.
C25_LogoutRevokes ==
  [][(authReq.last.op = "logout" /\ authReq.last.status = 200
        /\ authReq.last.token.type = "access"
        /\ authReq'.last.op = "me" /\ authReq'.last.token = authReq.last.token)
       => (authReq'.last.status = 401 /\ authReq'.last.code = "TOKEN_REVOKED")]_vars

\* ------------------------------------- claims on deactivation and rotation
\* C26: a DELETE by a user who does not own the key is answered 404 and
\* changes no field of the key.
C26_NonOwnerDelete ==
  \A u \in UserIds, d \in publicKeys :
     (authenticateToken(u) /\ d.user # u)
       => DeleteStatus(u, d.keyId) = 404 /\ deactivateKey(d.keyId) = publicKeys

\* C27: every stored public key carries the SHA-256 fingerprint of the PEM it
\* holds, whatever POST, PUT and DELETE requests were served.
C27_FingerprintCurrent ==
  \A d \in publicKeys : d.keyFingerprint = sha256(d.publicKeyPem)

C27_Witness ==
  \E d \in publicKeys : ~d.isActive /\ d.keyType # "RSA-OAEP"

\* C28: in every state the server reaches, whatever rotations came before,
\* the owner's DELETE of an active key is answered with success and leaves
\* the key inactive, so that no active key is in the way of the POST that
\* follows.
C28_Rotation ==
  \A d \in publicKeys :
     (d.isActive /\ authenticateToken(d.user))
       => /\ DeleteStatus(d.user, d.keyId) = 200
          /\ \A e \in deactivateKey(d.keyId) : e.keyId = d.keyId => ~e.isActive

\* C29: a refresh token is answered with new tokens at most once, however
\* the POST /auth/refresh requests that carry it interleave.
C29_RefreshSingleUse ==
  \A a, b \in authReq.answered : a.old = b.old => a = b


\* C30: once a public key has been imported, encryptFile without a key
\* encrypts every block under the imported key, whatever key pair the
\* instance has.
C30_ImportedKeyUsed ==
  (app.last.op = "encryptFile" /\ app.importedPublicKey # NullKey)
    => /\ app.last.outcome.ok
       /\ \A i \in 1..Len(app.encryptedFile.blocks) :
            app.encryptedFile.blocks[i].key = app.importedPublicKey

====
